---- MODULE Spec2Model ----
(***************************************************************************)
(* The Cauchy distribution of the probability crate                        *)
(* (src/src/distribution/cauchy.rs) as a state machine: one Cauchy value,  *)
(* the caller-supplied randomness source, and one action per method.       *)
(*                                                                         *)
(* f64 is modelled as a binary floating-point format of the same shape as  *)
(* IEEE-754 binary64 with a short significand: signed zeros, gradual       *)
(* underflow, round-to-nearest-even, overflow to the infinities and NaN.   *)
(* A finite value of magnitude m stands for m / 2^MIN_EXP_BITS.            *)
(***************************************************************************)
EXTENDS Integers, Sequences, FiniteSets, TLC

(***************************************************************************)
(* The floating-point format.                                              *)
(***************************************************************************)
\* significand width in bits (f64::MANTISSA_DIGITS is 53)
MANTISSA_DIGITS == 6
\* a finite magnitude is counted in units of 2^(-MIN_EXP_BITS)
MIN_EXP_BITS == 8
\* the largest binade starts at 2^MAX_EXP_BITS units
MAX_EXP_BITS == 20

RECURSIVE Pow2(_)
Pow2(n) == IF n = 0 THEN 1 ELSE 2 * Pow2(n - 1)

\* the number of bits of a positive integer
RECURSIVE BitLen(_)
BitLen(n) == IF n = 0 THEN 0 ELSE 1 + BitLen(n \div 2)

\* 1.0 in units
Unit == Pow2(MIN_EXP_BITS)

\* the least magnitude with a full significand, in units
Normal == Pow2(MANTISSA_DIGITS)

\* f64::MAX in units
MaxFin == (Pow2(MANTISSA_DIGITS) - 1) * Pow2(MAX_EXP_BITS - MANTISSA_DIGITS + 1)

NaN == [k |-> "nan", s |-> 0, m |-> 0]
Inf(s) == [k |-> "inf", s |-> s, m |-> 0]
Fin(s, m) == [k |-> "fin", s |-> s, m |-> m]

INFINITY == Inf(0)
NEG_INFINITY == Inf(1)

IsNaN(a) == a.k = "nan"
IsFinite(a) == a.k = "fin"
IsZero(a) == a.k = "fin" /\ a.m = 0

\* the spacing of the representable magnitudes around q units
Quantum(q) == IF q < Normal THEN 1 ELSE Pow2(BitLen(q) - MANTISSA_DIGITS)

\* num / den units, rounded to nearest, ties to even; overflow gives infinity
RoundRat(s, num, den) ==
  LET q0 == num \div den
      r0 == num % den
      q == Quantum(q0)
      r == q0 % q
      base == q0 - r
      h == q \div 2
      up == IF q = 1
            THEN 2 * r0 > den \/ (2 * r0 = den /\ q0 % 2 = 1)
            ELSE r > h \/ (r = h /\ r0 > 0) \/ (r = h /\ r0 = 0 /\ (base \div q) % 2 = 1)
      m == IF up THEN base + q ELSE base
  IN IF m > MaxFin THEN Inf(s) ELSE Fin(s, m)

\* the position of a finite magnitude among the representable magnitudes, from 0
Ord(m) ==
  IF m < Normal
  THEN m
  ELSE LET e == BitLen(m) - 1
       IN Normal + (Normal \div 2) * (e - MANTISSA_DIGITS)
            + ((m - Pow2(e)) \div Pow2(e + 1 - MANTISSA_DIGITS))

\* a finite value as a signed count of units
Val(a) == IF a.s = 1 THEN 0 - a.m ELSE a.m

Neg(a) == IF IsNaN(a) THEN NaN ELSE [a EXCEPT !.s = 1 - a.s]

\* f64::abs
abs(a) == IF IsNaN(a) THEN NaN ELSE [a EXCEPT !.s = 0]

\* a + b
Add(a, b) ==
  IF IsNaN(a) \/ IsNaN(b) THEN NaN
  ELSE IF a.k = "inf" THEN (IF b.k = "inf" /\ a.s # b.s THEN NaN ELSE a)
  ELSE IF b.k = "inf" THEN b
  ELSE LET v == Val(a) + Val(b)
       IN IF v = 0 THEN Fin(IF a.s = 1 /\ b.s = 1 THEN 1 ELSE 0, 0)
          ELSE IF v < 0 THEN RoundRat(1, 0 - v, 1)
          ELSE RoundRat(0, v, 1)

\* a - b
Sub(a, b) == Add(a, Neg(b))

\* a bound on the products formed: magnitudes whose product is beyond it multiply
\* to more than f64::MAX
Huge == Pow2(30)

\* a * b
Mul(a, b) ==
  IF IsNaN(a) \/ IsNaN(b) THEN NaN
  ELSE LET s == (a.s + b.s) % 2
       IN IF a.k = "inf" \/ b.k = "inf"
          THEN (IF IsZero(a) \/ IsZero(b) THEN NaN ELSE Inf(s))
          ELSE IF a.m = 0 \/ b.m = 0 THEN Fin(s, 0)
          ELSE IF a.m > Huge \div b.m THEN Inf(s)
          ELSE RoundRat(s, a.m * b.m, Unit)

\* a / b
Div(a, b) ==
  IF IsNaN(a) \/ IsNaN(b) THEN NaN
  ELSE LET s == (a.s + b.s) % 2
       IN IF a.k = "inf" THEN (IF b.k = "inf" THEN NaN ELSE Inf(s))
          ELSE IF b.k = "inf" THEN Fin(s, 0)
          ELSE IF b.m = 0 THEN (IF a.m = 0 THEN NaN ELSE Inf(s))
          ELSE RoundRat(s, a.m * Unit, b.m)

\* the position of a non-NaN value on the extended real line, in units
Key(a) == IF a.k = "inf" THEN (IF a.s = 1 THEN 0 - 2 * MaxFin ELSE 2 * MaxFin) ELSE Val(a)

\* a < b, a <= b, a > b, a == b: false when either side is NaN; -0.0 == 0.0
Lt(a, b) == ~IsNaN(a) /\ ~IsNaN(b) /\ Key(a) < Key(b)
Le(a, b) == ~IsNaN(a) /\ ~IsNaN(b) /\ Key(a) <= Key(b)
Gt(a, b) == Lt(b, a)
Eq(a, b) == ~IsNaN(a) /\ ~IsNaN(b) /\ Key(a) = Key(b)

(***************************************************************************)
(* The constants of std::f64 and the literals the code uses.               *)
(***************************************************************************)
\* std::f64::consts::PI and FRAC_1_PI, rounded to the format
PI == Fin(0, 800)
FRAC_1_PI == Fin(0, 82)
\* f64::EPSILON: the gap between 1.0 and the next value
EPSILON == Fin(0, Pow2(MIN_EXP_BITS - MANTISSA_DIGITS + 1))
Zero == Fin(0, 0)
Half == Fin(0, Unit \div 2)
One == Fin(0, Unit)
Four == Fin(0, 4 * Unit)

\* tan of each representable magnitude, in order, correctly rounded (signed units)
TanTab ==
  <<
    0, 1, 2, 3, 4, 5, 6, 7, 8, 9, 10, 11, 12, 13, 14, 15,
    16, 17, 18, 19, 20, 21, 22, 23, 24, 25, 26, 27, 28, 29, 30, 31,
    32, 33, 34, 35, 36, 37, 38, 39, 40, 41, 42, 43, 44, 45, 47, 48,
    49, 50, 51, 52, 53, 54, 55, 56, 57, 58, 59, 60, 61, 62, 63, 64,
    66, 68, 70, 72, 74, 76, 78, 80, 82, 84, 88, 90, 92, 94, 96, 98,
    100, 104, 106, 108, 110, 112, 114, 118, 120, 122, 124, 128, 128, 132, 136, 136,
    140, 144, 152, 156, 160, 168, 172, 180, 184, 192, 196, 204, 212, 216, 224, 232,
    240, 248, 252, 264, 272, 280, 288, 296, 304, 320, 328, 336, 352, 360, 376, 384,
    400, 424, 456, 496, 528, 576, 640, 704, 768, 864, 976, 1120, 1280, 1536, 1920, 2496,
    3584, 6528, 30720, -11264, -4736, -3008, -2176, -1728, -1408, -1184, -1024, -912, -816, -736, -672, -608,
    -560, -480, -416, -360, -320, -280, -248, -216, -192, -168, -144, -124, -106, -88, -70, -53,
    -36, -20, -4, 12, 28, 44, 61, 78, 96, 114, 136, 156, 180, 204, 232, 264,
    296, 384, 512, 736, 1184, 2944, -6784, -1568, -864, -592, -432, -328, -256, -196, -152, -110,
    -74, -41, -8, 24, 56, 92, 128, 172, 224, 288, 368, 496, 688, 1088, 2432, -12288,
    -1728, -608, -336, -204, -116, -45, 19, 86, 164, 280, 472, 1024, -57344, -992, -464, -272,
    -164, -84, -17, 48, 118, 208, 344, 624, 1856, -2240, -672, -368, -220, -126, -54, 11,
    76, 256, 896, -1152, -288, -94, 39, 196, 576, -3200, -392, -136, 2, 144, 408, 4096,
    -544, -188, -34, 98, 304, 1248, -832, -252, -72, 59, 228, 720, -1632, -336, -114, 22,
    168, -19456, -160, 122, 1984, -216, 80, 928, -288, 41, 592, -384, 5, 416, -528, -32,
    304, -816, -70, 232, -1536, -110, 172, -11520, -156, 124, 2112, -212, 82, 960, -280, 43,
    608, 7, -528, 312, -68, -1472, 176, -152, 2304, 84, -280, 624, 9, -512, 320, -64,
    -1408, 180, -152, 2496, 86, -272, 624, 11, -496, 328, -62, -1344, 184, -148, 2752, 90,
    -264, 14, 328, -1280, -144, 92, 672, -480, -58, 188, 3392, -256, 18, 344, -1152, -140,
    98, 704, -456, -53, 196, 4480, -248, 23, 352, -1056, -132, 102, 736, -440, -48, 204,
    6400, 27, -992, 108, -424, 212, -232, 384, -122, 832, -39, 58368, 36, -864, 118, -392,
    228, -216, 416, -110, 960, -30, -8192, 46, -768, 128, -360, 244, -200, 448, -100, 1120,
    -20, 55, 140, 264, 488, 1344, -2496, -624, -312, -172, -80, -2, 74, 168, 304, 592,
    2112, -1472, -512, -272, -148, -60, 16, 94, 192, 352, 720, 5248, -1024, -432, -236, -124,
    -41, 116, 408, -11520, -368, -102, 53, 256, 1280, -624, -176, -5, 164, 576, -1536, -272,
    -62, 92, 344, 4480, -440, -126, 32, 220, 896, -816, -208, -25, 136, 472, -3008, -328,
    -84, 288, -528, 11, 688, -244, 110, -55296, -108, 248, -672, -9, 544, -288, 88, 3392,
    -132, 212, -864, -30, 448, -336, 64, 1632, -160, 180, -1216, -50, 376, -400, 44, 1088,
    -188, -1984, 320, 23, -224, -5248, 272, 2, -264, 8448, 232, -18, -304, 2304, 196, -39,
    -360, 1344, 168, -60, -432, 928, 140, -82, -528, 704, 114, -104, -640, 560, 90, -128
  >>

\* atan of each representable magnitude, in order, correctly rounded, up to the
\* first magnitude whose atan rounds to FRAC_PI_2 (as does every larger one)
AtanTab ==
  <<
    0, 1, 2, 3, 4, 5, 6, 7, 8, 9, 10, 11, 12, 13, 14, 15,
    16, 17, 18, 19, 20, 21, 22, 23, 24, 25, 26, 27, 28, 29, 30, 31,
    32, 33, 34, 35, 36, 37, 38, 39, 40, 41, 42, 43, 44, 45, 46, 46,
    47, 48, 49, 50, 51, 52, 53, 54, 55, 56, 57, 58, 59, 60, 61, 62,
    63, 64, 66, 68, 70, 72, 74, 76, 78, 80, 82, 82, 84, 86, 88, 90,
    92, 94, 96, 98, 98, 100, 102, 104, 106, 108, 108, 110, 112, 114, 116, 118,
    118, 122, 126, 128, 132, 136, 136, 140, 144, 144, 148, 152, 156, 156, 160, 164,
    164, 168, 168, 172, 176, 176, 180, 180, 184, 188, 188, 192, 192, 196, 196, 200,
    200, 204, 208, 212, 216, 220, 224, 228, 228, 232, 236, 240, 240, 244, 248, 248,
    252, 256, 256, 256, 264, 264, 264, 264, 272, 272, 272, 272, 280, 280, 280, 280,
    280, 288, 288, 296, 296, 296, 304, 304, 304, 304, 312, 312, 312, 312, 320, 320,
    320, 320, 320, 328, 328, 328, 328, 328, 328, 336, 336, 336, 336, 336, 336, 336,
    336, 344, 344, 344, 344, 344, 352, 352, 352, 352, 352, 352, 360, 360, 360, 360,
    360, 360, 360, 360, 360, 360, 368, 368, 368, 368, 368, 368, 368, 368, 368, 368,
    368, 368, 376, 376, 376, 376, 376, 376, 376, 376, 376, 376, 376, 376, 376, 384,
    384, 384, 384, 384, 384, 384, 384, 384, 384, 384, 384, 384, 384, 384, 384, 384,
    384, 384, 384, 384, 384, 392, 392, 392, 392, 392, 392, 392, 392, 392, 392, 392,
    392, 392, 392, 392, 392, 392, 392, 392, 392, 392, 392, 392, 392, 392, 392, 392,
    392, 392, 392, 392, 392, 392, 392, 392, 392, 392, 400
  >>

\* ln of each representable positive magnitude, in order, correctly rounded
\* (signed units)
LnTab ==
  <<
    -1408, -1248, -1152, -1056, -1008, -960, -928, -880, -864, -832, -800, -784, -768, -736, -720, -704,
    -688, -672, -672, -656, -640, -624, -624, -608, -592, -592, -576, -560, -560, -544, -544, -528,
    -528, -512, -512, -504, -496, -488, -480, -472, -472, -464, -456, -448, -448, -440, -432, -432,
    -424, -416, -416, -408, -400, -400, -392, -392, -384, -384, -376, -368, -368, -360, -360, -352,
    -344, -336, -328, -328, -320, -312, -304, -296, -288, -288, -280, -272, -264, -264, -256, -252,
    -244, -240, -236, -232, -224, -220, -216, -212, -208, -204, -200, -192, -188, -184, -180, -176,
    -168, -160, -156, -148, -140, -132, -126, -120, -114, -108, -102, -96, -90, -84, -80, -74,
    -68, -63, -58, -53, -48, -43, -39, -34, -30, -25, -21, -17, -12, -8, -4, 0,
    8, 16, 23, 30, 37, 44, 51, 57, 63, 70, 76, 82, 88, 92, 98, 104,
    110, 114, 120, 124, 128, 132, 140, 144, 148, 152, 156, 160, 164, 168, 172, 176,
    184, 192, 200, 208, 216, 220, 228, 236, 240, 248, 252, 256, 264, 272, 272, 280,
    288, 288, 296, 304, 304, 312, 320, 320, 328, 328, 336, 336, 344, 344, 352, 352,
    360, 368, 376, 384, 392, 400, 408, 416, 416, 424, 432, 440, 440, 448, 456, 456,
    464, 472, 472, 480, 488, 488, 496, 496, 504, 504, 512, 512, 528, 528, 528, 528,
    544, 544, 560, 560, 576, 576, 576, 592, 592, 608, 608, 608, 624, 624, 624, 640,
    640, 640, 656, 656, 656, 672, 672, 672, 688, 688, 688, 688, 704, 704, 704, 704,
    720, 720, 736, 736, 752, 752, 768, 768, 768, 784, 784, 784, 800, 800, 816, 816,
    816, 832, 832, 832, 832, 848, 848, 848, 864, 864, 864, 864, 880, 880, 880, 880,
    896, 896, 912, 912, 928, 928, 944, 944, 944, 960, 960, 976, 976, 976, 992, 992,
    992, 1008, 1008, 1008, 1024, 1024, 1024, 1024, 1024, 1024, 1056, 1056, 1056, 1056, 1056, 1056,
    1088, 1088, 1088, 1088, 1088, 1120, 1120, 1120, 1120, 1120, 1152, 1152, 1152, 1152, 1152, 1184,
    1184, 1184, 1184, 1184, 1184, 1184, 1216, 1216, 1216, 1216, 1216, 1216, 1216, 1248, 1248, 1248,
    1248, 1248, 1280, 1280, 1280, 1280, 1280, 1312, 1312, 1312, 1312, 1312, 1344, 1344, 1344, 1344,
    1344, 1344, 1376, 1376, 1376, 1376, 1376, 1376, 1376, 1408, 1408, 1408, 1408, 1408, 1408, 1408,
    1440, 1440, 1440, 1440, 1472, 1472, 1472, 1472, 1472, 1504, 1504, 1504, 1504, 1504, 1504, 1536,
    1536, 1536, 1536, 1536, 1536, 1568, 1568, 1568, 1568, 1568, 1568, 1568, 1600, 1600, 1600, 1600,
    1600, 1600, 1632, 1632, 1632, 1632, 1632, 1664, 1664, 1664, 1664, 1664, 1696, 1696, 1696, 1696,
    1696, 1696, 1728, 1728, 1728, 1728, 1728, 1728, 1760, 1760, 1760, 1760, 1760, 1760, 1760, 1760,
    1792, 1792, 1792, 1792, 1824, 1824, 1824, 1824, 1824, 1856, 1856, 1856, 1856, 1856, 1888, 1888,
    1888, 1888, 1888, 1888, 1888, 1920, 1920, 1920, 1920, 1920, 1920, 1920, 1952, 1952, 1952, 1952,
    1952, 1952, 1984, 1984, 1984, 1984, 2016, 2016, 2016, 2016, 2016, 2048, 2048, 2048, 2048, 2048,
    2048, 2048, 2048, 2048, 2112, 2112, 2112, 2112, 2112, 2112, 2112, 2112, 2112, 2112, 2112, 2112,
    2112, 2176, 2176, 2176, 2176, 2176, 2176, 2176, 2176, 2176, 2176, 2240, 2240, 2240, 2240, 2240,
    2240, 2240, 2240, 2240, 2240, 2240, 2240, 2304, 2304, 2304, 2304, 2304, 2304, 2304, 2304
  >>

\* f64::tan
tan(a) ==
  IF ~IsFinite(a) THEN NaN
  ELSE LET t == TanTab[Ord(a.m) + 1]
       IN IF t < 0 THEN Fin(1 - a.s, 0 - t) ELSE Fin(a.s, t)

\* f64::atan
atan(a) ==
  IF IsNaN(a) THEN NaN
  ELSE IF a.k = "inf" \/ Ord(a.m) + 1 > Len(AtanTab) THEN Fin(a.s, AtanTab[Len(AtanTab)])
  ELSE Fin(a.s, AtanTab[Ord(a.m) + 1])

\* f64::ln
ln(a) ==
  IF IsNaN(a) THEN NaN
  ELSE IF IsZero(a) THEN NEG_INFINITY
  ELSE IF a.s = 1 THEN NaN
  ELSE IF a.k = "inf" THEN INFINITY
  ELSE LET t == LnTab[Ord(a.m)]
       IN IF t < 0 THEN Fin(1, 0 - t) ELSE Fin(0, t)

(***************************************************************************)
(* The state: the Cauchy value the caller holds (if any), the source, and  *)
(* the last call with what it did.                                         *)
(***************************************************************************)
VARIABLES
  cauchy,    \* [some, self]: the Cauchy value the caller holds
  given,     \* the parameters passed to the call of new that made it
  source,    \* the state of the caller's source
  op,        \* the last call
  arg,       \* its arguments
  ret,       \* what it returned
  branch,    \* inverse: the branch taken
  draws,     \* sample: the draws made, in order
  divisor,   \* sample: the divisor
  entry,     \* sample: the state of the source at entry
  from,      \* distribution: the call whose result was passed as x, and its argument
  cauchy2,   \* a second, independent run: its Cauchy value,
  source2,   \* its source,
  op2,       \* its last call,
  ret2,      \* what that returned,
  entry2     \* and the state of its source at entry

run1 == <<cauchy, given, source, op, arg, ret, branch, draws, divisor, entry, from>>
run2 == <<cauchy2, source2, op2, ret2, entry2>>
vars == <<cauchy, given, source, op, arg, ret, branch, draws, divisor, entry, from,
          cauchy2, source2, op2, ret2, entry2>>

(***************************************************************************)
(* What a call returns: a panic, an f64, a Cauchy or a Vec<f64>.           *)
(***************************************************************************)
NoCauchy == [x_0 |-> Zero, gamma |-> Zero]
NoRet == [tag |-> "none", f |-> Zero, c |-> NoCauchy, v |-> <<>>]
Panic == [NoRet EXCEPT !.tag = "panic"]
RetF64(f) == [NoRet EXCEPT !.tag = "f64", !.f = f]
RetCauchy(c) == [NoRet EXCEPT !.tag = "Cauchy", !.c = c]
RetVec(v) == [NoRet EXCEPT !.tag = "Vec", !.v = v]

\* should!(requirement): execution goes on exactly when the requirement holds,
\* and the call panics otherwise
should(requirement) == requirement

(***************************************************************************)
(* Cauchy and its methods, as functions of the value and the arguments.    *)
(* Each is preceded by the variants of it that the properties are tried    *)
(* against.                                                                *)
(***************************************************************************)
\* variant: the fields stored the other way round
Cauchy_swapped(x_0, gamma) == [x_0 |-> gamma, gamma |-> x_0]

\* Cauchy { x_0, gamma }
Cauchy(x_0, gamma) == [x_0 |-> x_0, gamma |-> gamma]

\* variant: the requirement is gamma >= 0.0
new_ge(x_0, gamma) ==
  IF should(Le(Zero, gamma)) THEN RetCauchy(Cauchy(x_0, gamma)) ELSE Panic

\* Cauchy::new
new(x_0, gamma) ==
  IF should(Gt(gamma, Zero)) THEN RetCauchy(Cauchy(x_0, gamma)) ELSE Panic

\* Continuous::density
density(self, x) ==
  LET deviation == Sub(x, self.x_0)
  IN Div(self.gamma, Mul(PI, Add(Mul(self.gamma, self.gamma), Mul(deviation, deviation))))

\* variant: the deviation is not divided by gamma
distribution_unscaled(self, x) ==
  Add(Mul(FRAC_1_PI, atan(Sub(x, self.x_0))), Half)

\* variant: x is not taken relative to x_0
distribution_uncentred(self, x) ==
  Add(Mul(FRAC_1_PI, atan(Div(x, self.gamma))), Half)

\* Distribution::distribution
distribution(self, x) ==
  Add(Mul(FRAC_1_PI, atan(Div(Sub(x, self.x_0), self.gamma))), Half)

\* Entropy::entropy
entropy(self) == ln(Mul(Mul(PI, Four), self.gamma))

\* variant: the range has no upper end
contains_from(p) == Le(Zero, p)

\* (0.0..=1.0).contains(&p)
contains(p) == Le(Zero, p) /\ Le(p, One)

\* variant: the second branch is 1.0 < p, so that p = 1.0 takes the formula
inverse_lt(self, p) ==
  IF ~should(contains(p)) THEN [ret |-> Panic, branch |-> "should"]
  ELSE IF Le(p, Zero) THEN [ret |-> RetF64(NEG_INFINITY), branch |-> "p <= 0.0"]
  ELSE IF Lt(One, p) THEN [ret |-> RetF64(INFINITY), branch |-> "1.0 <= p"]
  ELSE [ret |-> RetF64(Add(self.x_0, Mul(self.gamma, tan(Mul(PI, Sub(p, Half)))))),
        branch |-> "else"]

\* Inverse::inverse: the outcome and the branch that produced it
inverse(self, p) ==
  IF ~should(contains(p)) THEN [ret |-> Panic, branch |-> "should"]
  ELSE IF Le(p, Zero) THEN [ret |-> RetF64(NEG_INFINITY), branch |-> "p <= 0.0"]
  ELSE IF Le(One, p) THEN [ret |-> RetF64(INFINITY), branch |-> "1.0 <= p"]
  ELSE [ret |-> RetF64(Add(self.x_0, Mul(self.gamma, tan(Mul(PI, Sub(p, Half)))))),
        branch |-> "else"]

\* Median::median
median(self) == self.x_0

\* variant: the mode listed twice
modes_twice(self) == <<self.x_0, self.x_0>>

\* Modes::modes
modes(self) == <<self.x_0>>

(***************************************************************************)
(* The randomness source and the Gaussian helper that sample draws from.   *)
(***************************************************************************)
\* the number of states of the source
SrcPeriod == 5

\* Source::read: the next raw value, and the state the source is left in
read(source_) == [value |-> source_, next |-> (source_ + 1) % SrcPeriod]

\* the standard normal deviate made from a raw value:
\* 0.0, -0.0, 1.0, -0.5, the smallest positive value, -2.5, 0.375
StdNormal ==
  << Fin(0, 0), Fin(1, 0), Fin(0, 256), Fin(1, 128), Fin(0, 1), Fin(1, 640), Fin(0, 96) >>

\* Gaussian::new(mu, sigma)
Gaussian(mu, sigma) == [mu |-> mu, sigma |-> sigma]

\* Gaussian::sample: one read of the source, scaled and shifted
gaussian_sample(self, source_) ==
  LET u == read(source_)
      z == StdNormal[(u.value % Len(StdNormal)) + 1]
  IN [value |-> Add(Mul(self.sigma, z), self.mu), next |-> u.next]

\* variant: b is drawn before a
sample_b_first(self, source_) ==
  LET gaussian == Gaussian(Zero, One)
      b == gaussian_sample(gaussian, source_)
      a == gaussian_sample(gaussian, b.next)
      div == Add(abs(b.value), EPSILON)
  IN [ret |-> RetF64(Add(self.x_0, Div(Mul(self.gamma, a.value), div))),
      draws |-> << [dist |-> gaussian, at |-> source_, value |-> b.value],
                   [dist |-> gaussian, at |-> b.next, value |-> a.value] >>,
      divisor |-> div,
      next |-> a.next]

\* variant: the divisor is b.abs(), without the epsilon
sample_no_epsilon(self, source_) ==
  LET gaussian == Gaussian(Zero, One)
      a == gaussian_sample(gaussian, source_)
      b == gaussian_sample(gaussian, a.next)
      div == abs(b.value)
  IN [ret |-> RetF64(Add(self.x_0, Div(Mul(self.gamma, a.value), div))),
      draws |-> << [dist |-> gaussian, at |-> source_, value |-> a.value],
                   [dist |-> gaussian, at |-> a.next, value |-> b.value] >>,
      divisor |-> div,
      next |-> b.next]

\* variant: the b of the previous call is kept and used as a when the previous call
\* of the process was a sample too, so that only b is drawn
sample_kept(self, source_) ==
  LET gaussian == Gaussian(Zero, One)
      kept == op = "sample" /\ Len(draws) = 2
      a == IF kept THEN [value |-> draws[2].value, next |-> source_]
           ELSE gaussian_sample(gaussian, source_)
      b == gaussian_sample(gaussian, a.next)
      div == Add(abs(b.value), EPSILON)
  IN [ret |-> RetF64(Add(self.x_0, Div(Mul(self.gamma, a.value), div))),
      draws |-> << [dist |-> gaussian, at |-> source_, value |-> a.value],
                   [dist |-> gaussian, at |-> a.next, value |-> b.value] >>,
      divisor |-> div,
      next |-> b.next]

\* Sample::sample: the value returned, the draws made in order (from which
\* distribution, at which source state), the divisor, and the source's state after
sample(self, source_) ==
  LET gaussian == Gaussian(Zero, One)
      a == gaussian_sample(gaussian, source_)
      b == gaussian_sample(gaussian, a.next)
      div == Add(abs(b.value), EPSILON)
  IN [ret |-> RetF64(Add(self.x_0, Div(Mul(self.gamma, a.value), div))),
      draws |-> << [dist |-> gaussian, at |-> source_, value |-> a.value],
                   [dist |-> gaussian, at |-> a.next, value |-> b.value] >>,
      divisor |-> div,
      next |-> b.next]

(***************************************************************************)
(* The arguments the caller passes.                                        *)
(***************************************************************************)
\* every magnitude up to hi units that the format represents
Magnitudes(hi) == { m \in 0 .. hi : m % Quantum(m) = 0 }

\* locations: 0.0, -0.0, 2.0, -2.0, 1024.0, NaN, infinity
X0Set ==
  { Fin(0, 0), Fin(1, 0), Fin(0, 512), Fin(1, 512), Fin(0, 262144), NaN, INFINITY }

\* scales: the smallest positive value, 1.0, 8.0, f64::MAX, infinity; and
\* 0.0, -0.0, -1.0, NaN
GammaSet ==
  { Fin(0, 1), Fin(0, 256), Fin(0, 2048), Fin(0, MaxFin), INFINITY,
    Fin(0, 0), Fin(1, 0), Fin(1, 256), NaN }

\* probabilities: 0.0, -0.0, the smallest positive value, 0.25, 0.4, 0.5, 0.9, the
\* value below 1.0, 1.0; and the value above 1.0, 2.0, the value below -0.0, -1.0,
\* the infinities, NaN
PSet ==
  { Fin(0, 0), Fin(1, 0), Fin(0, 1), Fin(0, 64), Fin(0, 102), Fin(0, 128),
    Fin(0, 232), Fin(0, 252), Fin(0, 256),
    Fin(0, 264), Fin(0, 512), Fin(1, 1), Fin(1, 256), INFINITY, NEG_INFINITY, NaN }

\* points: -1.0, 0.0, 2.0, 1024.0, infinity, NaN
XSet ==
  { Fin(1, 256), Fin(0, 0), Fin(0, 512), Fin(0, 262144), INFINITY, NaN }

\* the round trip: locations 0.0, -0.0, the second smallest positive value, 0.25,
\* -0.5, -1.0, 2.0, -8.0, 31.5, 1024.0, f64::MAX
RoundTripX0Set ==
  { Fin(0, 0), Fin(1, 0), Fin(0, 2), Fin(0, 64), Fin(1, 128), Fin(1, 256), Fin(0, 512),
    Fin(1, 2048), Fin(0, 8064), Fin(0, 262144), Fin(0, MaxFin) }

\* the round trip: scales 0.25, 0.2890625, 0.5, 1.0, 3.0, 8.0, 31.5, and the
\* smallest positive value, 0.125, 128.0, f64::MAX
RoundTripGammaSet ==
  { Fin(0, 64), Fin(0, 74), Fin(0, 128), Fin(0, 256), Fin(0, 768), Fin(0, 2048),
    Fin(0, 8064), Fin(0, 1), Fin(0, 32), Fin(0, 32768), Fin(0, MaxFin) }

\* the round trip: every probability of the format
RoundTripPSet == { Fin(0, m) : m \in Magnitudes(Unit) }

\* the two runs: locations 2.0, -0.0 and scales 1.0, 8.0, 0.0
PairX0Set == { Fin(0, 512), Fin(1, 0) }
PairGammaSet == { Fin(0, 256), Fin(0, 2048), Fin(0, 0) }

None == [some |-> FALSE, self |-> NoCauchy]
Some(c) == [some |-> TRUE, self |-> c]
NoArg == [a |-> Zero, b |-> Zero]
NoFrom == [op |-> "", p |-> Zero]

\* the first run, before any call
Init1 ==
  /\ cauchy = None
  /\ given = NoCauchy
  /\ source \in 0 .. SrcPeriod - 1
  /\ op = ""
  /\ arg = NoArg
  /\ ret = NoRet
  /\ branch = ""
  /\ draws = <<>>
  /\ divisor = Zero
  /\ entry = source
  /\ from = NoFrom

Init ==
  /\ Init1
  /\ cauchy2 = None
  /\ source2 = 0
  /\ op2 = ""
  /\ ret2 = NoRet
  /\ entry2 = 0

\* a call of a method that takes &self and the argument a, and returns r
Returns(o, a, r) ==
  /\ cauchy.some
  /\ op' = o
  /\ arg' = [a |-> a, b |-> Zero]
  /\ ret' = r
  /\ branch' = ""
  /\ draws' = <<>>
  /\ divisor' = Zero
  /\ from' = NoFrom
  /\ entry' = source
  /\ UNCHANGED <<cauchy, given, source, run2>>

\* let d = Cauchy::new(x_0, gamma)
CallNew(x_0, gamma) ==
  LET r == new(x_0, gamma)
  IN /\ op' = "new"
     /\ arg' = [a |-> x_0, b |-> gamma]
     /\ ret' = r
     /\ cauchy' = IF r.tag = "Cauchy" THEN Some(r.c) ELSE cauchy
     /\ given' = IF r.tag = "Cauchy" THEN [x_0 |-> x_0, gamma |-> gamma] ELSE given
     /\ branch' = ""
     /\ draws' = <<>>
     /\ divisor' = Zero
     /\ from' = NoFrom
     /\ entry' = source
     /\ UNCHANGED <<source, run2>>

\* d.x_0()
CallX0 == Returns("x_0", Zero, RetF64(cauchy.self.x_0))

\* d.gamma()
CallGamma == Returns("gamma", Zero, RetF64(cauchy.self.gamma))

\* d.density(x)
CallDensity(x) == Returns("density", x, RetF64(density(cauchy.self, x)))

\* d.entropy()
CallEntropy == Returns("entropy", Zero, RetF64(entropy(cauchy.self)))

\* d.median()
CallMedian == Returns("median", Zero, RetF64(median(cauchy.self)))

\* d.modes()
CallModes == Returns("modes", Zero, RetVec(modes(cauchy.self)))

\* d.distribution(x); fr names the call whose result x is, if it is one
Distribute(x, fr) ==
  /\ cauchy.some
  /\ op' = "distribution"
  /\ arg' = [a |-> x, b |-> Zero]
  /\ ret' = RetF64(distribution(cauchy.self, x))
  /\ branch' = ""
  /\ draws' = <<>>
  /\ divisor' = Zero
  /\ from' = fr
  /\ entry' = source
  /\ UNCHANGED <<cauchy, given, source, run2>>

CallDistribution(x) == Distribute(x, NoFrom)

\* d.distribution(d.inverse(p)) and d.distribution(d.median()), after the inner call
CallDistributionOfResult ==
  /\ op \in {"inverse", "median"}
  /\ ret.tag = "f64"
  /\ Distribute(ret.f, [op |-> op, p |-> arg.a])

\* d.inverse(p)
CallInverse(p) ==
  LET r == inverse(cauchy.self, p)
  IN /\ cauchy.some
     /\ op' = "inverse"
     /\ arg' = [a |-> p, b |-> Zero]
     /\ ret' = r.ret
     /\ branch' = r.branch
     /\ draws' = <<>>
     /\ divisor' = Zero
     /\ from' = NoFrom
     /\ entry' = source
     /\ UNCHANGED <<cauchy, given, source, run2>>

\* d.sample(&mut source)
CallSample ==
  LET r == sample(cauchy.self, source)
  IN /\ cauchy.some
     /\ op' = "sample"
     /\ arg' = NoArg
     /\ ret' = r.ret
     /\ source' = r.next
     /\ entry' = source
     /\ draws' = r.draws
     /\ divisor' = r.divisor
     /\ branch' = ""
     /\ from' = NoFrom
     /\ UNCHANGED <<cauchy, given, run2>>

Next ==
  \/ \E x_0 \in X0Set, gamma \in GammaSet : CallNew(x_0, gamma)
  \/ CallX0
  \/ CallGamma
  \/ \E x \in XSet : CallDensity(x)
  \/ \E x \in XSet : CallDistribution(x)
  \/ CallDistributionOfResult
  \/ CallEntropy
  \/ \E p \in PSet : CallInverse(p)
  \/ CallMedian
  \/ CallModes
  \/ CallSample

\* any sequence of calls on the value, with any arguments
Spec == Init /\ [][Next]_vars

(***************************************************************************)
(* The round trip d.distribution(d.inverse(p)) of one Cauchy value, over   *)
(* every probability of the format.                                        *)
(***************************************************************************)
RoundTripNext ==
  \/ /\ ~cauchy.some
     /\ \E x_0 \in RoundTripX0Set, gamma \in RoundTripGammaSet : CallNew(x_0, gamma)
  \/ /\ op = "new"
     /\ \E p \in RoundTripPSet : CallInverse(p)
  \/ /\ op = "inverse"
     /\ CallDistributionOfResult

\* the source plays no part in it
RoundTripInit == Init /\ source = 0

SpecRoundTrip == RoundTripInit /\ [][RoundTripNext]_vars

(***************************************************************************)
(* Two runs, each with its own Cauchy value and its own source.            *)
(***************************************************************************)
PairInit ==
  /\ Init1
  /\ cauchy2 = None
  /\ source2 \in 0 .. SrcPeriod - 1
  /\ op2 = ""
  /\ ret2 = NoRet
  /\ entry2 = source2

\* the second run: let d = Cauchy::new(x_0, gamma)
CallNew2(x_0, gamma) ==
  LET r == new(x_0, gamma)
  IN /\ op2' = "new"
     /\ ret2' = r
     /\ cauchy2' = IF r.tag = "Cauchy" THEN Some(r.c) ELSE cauchy2
     /\ entry2' = source2
     /\ UNCHANGED <<source2, run1>>

\* the second run: d.sample(&mut source)
CallSample2 ==
  LET r == sample(cauchy2.self, source2)
  IN /\ cauchy2.some
     /\ op2' = "sample"
     /\ ret2' = r.ret
     /\ source2' = r.next
     /\ entry2' = source2
     /\ UNCHANGED <<cauchy2, run1>>

PairNext ==
  \/ \E x_0 \in PairX0Set, gamma \in PairGammaSet : CallNew(x_0, gamma)
  \/ \E x_0 \in PairX0Set, gamma \in PairGammaSet : CallNew2(x_0, gamma)
  \/ CallSample
  \/ CallSample2

SpecPair == PairInit /\ [][PairNext]_vars

(***************************************************************************)
(* The properties.                                                         *)
(***************************************************************************)
\* every value of the inputs and of the state is a value of the format
Representable(a) == a.k # "fin" \/ (a.m <= MaxFin /\ a.m % Quantum(a.m) = 0)

TypeOK ==
  /\ \A a \in X0Set \cup GammaSet \cup PSet \cup XSet : Representable(a)
  /\ \A a \in RoundTripX0Set \cup RoundTripGammaSet \cup RoundTripPSet : Representable(a)
  /\ \A a \in PairX0Set \cup PairGammaSet : Representable(a)
  /\ \A i \in 1 .. Len(StdNormal) : Representable(StdNormal[i])
  /\ Representable(ret.f) /\ Representable(arg.a) /\ Representable(divisor)
  /\ source \in 0 .. SrcPeriod - 1 /\ source2 \in 0 .. SrcPeriod - 1

\* a Cauchy within its domain: the location a real number, the scale a real
\* number above zero
Valid(c) == IsFinite(c.x_0) /\ IsFinite(c.gamma) /\ Gt(c.gamma, Zero)

\* C1: a call Cauchy::new(x_0, gamma) with gamma <= 0 panics and returns no Cauchy
\* value, whatever x_0 and whenever it is made; a Cauchy that new returns has
\* gamma > 0.
C1_NewRejectsNonPositiveScale ==
  /\ (op = "new" /\ Le(arg.b, Zero)) => (ret = Panic /\ ret.tag # "Cauchy")
  /\ (op = "new" /\ ret.tag = "Cauchy") => Gt(ret.c.gamma, Zero)

\* C1, reached: new was called with gamma = 0.0 (of either sign) and panicked
C1_Witness == op = "new" /\ IsZero(arg.b) /\ ret = Panic

\* C2: a call inverse(p) with p < 0 or p > 1 panics at the requirement that opens
\* the method: no branch of the method is taken and no value (clamped, infinite or
\* from the formula) is returned.
C2_InverseRejectsOutsideUnitInterval ==
  (op = "inverse" /\ (Lt(arg.a, Zero) \/ Gt(arg.a, One)))
    => (ret = Panic /\ branch = "should")

\* C2, reached: inverse was called with a finite p above 1.0 and panicked
C2_Witness == op = "inverse" /\ IsFinite(arg.a) /\ Gt(arg.a, One) /\ ret = Panic

\* C3: inverse(0) is negative infinity from the branch p <= 0.0, inverse(1) is
\* positive infinity from the branch 1.0 <= p, and the formula's branch is taken
\* only when 0 < p < 1.
C3_InverseBoundaryBranches ==
  op = "inverse" =>
    /\ Eq(arg.a, Zero) => (ret = RetF64(NEG_INFINITY) /\ branch = "p <= 0.0")
    /\ Eq(arg.a, One) => (ret = RetF64(INFINITY) /\ branch = "1.0 <= p")
    /\ branch = "else" => (Lt(Zero, arg.a) /\ Lt(arg.a, One))

\* C3, reached: inverse(1.0) returned positive infinity on a valid Cauchy
C3_Witness ==
  /\ op = "inverse" /\ arg.a = One /\ ret = RetF64(INFINITY)
  /\ cauchy.some /\ Valid(cauchy.self)

\* C4 as stated: every Cauchy value that exists has a real location and a scale
\* above zero, and holds the parameters given to new.
C4_Original_ParametersInDomain ==
  cauchy.some =>
    /\ IsFinite(cauchy.self.x_0)
    /\ Gt(cauchy.self.gamma, Zero)
    /\ cauchy.self = given

\* C4, amended: every Cauchy value that exists has a scale above zero (the one
\* constraint new checks; the location is stored as given, NaN and the infinities
\* included), and after any sequence of calls it holds exactly the x_0 and gamma
\* given to new.
C4_ScalePositiveAndParametersKept ==
  cauchy.some =>
    /\ Gt(cauchy.self.gamma, Zero)
    /\ cauchy.self = given

\* C4, reached: a Cauchy value made with x_0 = 2.0 and gamma = 8.0 after a sample
C4_Witness ==
  /\ cauchy.some /\ op = "sample"
  /\ given = [x_0 |-> Fin(0, 512), gamma |-> Fin(0, 2048)]

\* the tolerance of the round trip: two EPSILON
Tolerance == 2 * EPSILON.m

\* |a - b| <= Tolerance, for finite a and b
Close(a, b) ==
  /\ IsFinite(a) /\ IsFinite(b)
  /\ Val(a) - Val(b) <= Tolerance
  /\ Val(b) - Val(a) <= Tolerance

\* d.distribution(d.inverse(p)) was just computed, for a p strictly inside (0, 1)
RoundTripDone ==
  /\ cauchy.some /\ op = "distribution" /\ from.op = "inverse"
  /\ Lt(Zero, from.p) /\ Lt(from.p, One)

\* C5 as stated: for every valid Cauchy and every p strictly inside (0, 1),
\* distribution(inverse(p)) is within the tolerance of p.
C5_Original_RoundTrip ==
  (RoundTripDone /\ Valid(cauchy.self)) => Close(ret.f, from.p)

\* a valid Cauchy whose scale is a normal number, at most f64::MAX / 2^(MANTISSA_DIGITS+2)
\* (so that gamma * tan(..) stays finite), and whose location is at most the scale
\* in magnitude
Moderate(c) ==
  /\ Valid(c)
  /\ c.gamma.m >= Normal
  /\ c.gamma.m <= MaxFin \div Pow2(MANTISSA_DIGITS + 2)
  /\ c.x_0.m <= c.gamma.m

\* C5, amended: for every Cauchy with finite parameters, gamma a normal number
\* small enough that gamma * tan(..) cannot overflow and |x_0| <= gamma, and every
\* p strictly inside (0, 1), distribution(inverse(p)) is within the tolerance of p.
C5_RoundTripModerate ==
  (RoundTripDone /\ Moderate(cauchy.self)) => Close(ret.f, from.p)

\* C5, reached: the round trip of p = 0.25 on Cauchy(2.0, 8.0) came back within
\* the tolerance
C5_Witness ==
  /\ RoundTripDone /\ from.p = Fin(0, 64)
  /\ cauchy.self = [x_0 |-> Fin(0, 512), gamma |-> Fin(0, 2048)]
  /\ Close(ret.f, from.p)

\* C6: median() returns the x_0 given to new, the same value bit for bit, and
\* modes() returns a sequence of one element, that x_0.
C6_MedianAndModesAreLocation ==
  /\ op = "median" => ret = RetF64(given.x_0)
  /\ op = "modes" => (ret.tag = "Vec" /\ Len(ret.v) = 1 /\ ret.v[1] = given.x_0)

\* C6, reached: modes() returned <<2.0>> on a Cauchy made with x_0 = 2.0
C6_Witness == op = "modes" /\ given.x_0 = Fin(0, 512) /\ ret.v = <<Fin(0, 512)>>

C8_SampleDrawsTwoGaussians ==
  op = "sample" =>
    /\ Len(draws) = 2
    /\ \A i \in 1 .. Len(draws) : draws[i].dist = Gaussian(Zero, One)
    /\ draws[1].at = entry
    /\ draws[1].value = gaussian_sample(Gaussian(Zero, One), entry).value
    /\ draws[2].at = gaussian_sample(Gaussian(Zero, One), entry).next
    /\ draws[2].value = gaussian_sample(Gaussian(Zero, One), draws[2].at).value
    /\ source = gaussian_sample(Gaussian(Zero, One), draws[2].at).next
    /\ ret = RetF64(Add(given.x_0,
                        Div(Mul(given.gamma, draws[1].value),
                            Add(abs(draws[2].value), EPSILON))))
    /\ cauchy.self = given

\* C8, reached: a sample that drew a = 1.0 and then b = -0.5
C8_Witness ==
  /\ op = "sample" /\ Len(draws) = 2
  /\ draws[1].value = Fin(0, 256) /\ draws[2].value = Fin(1, 128)

\* C9: for every valid Cauchy, distribution(median()) is 0.5 exactly, and
\* inverse(0.5) equals median(), which is x_0.
C9_MedianConsistent ==
  (cauchy.some /\ Valid(cauchy.self)) =>
    /\ (op = "distribution" /\ from.op = "median") => ret = RetF64(Half)
    /\ (op = "inverse" /\ arg.a = Half) =>
         (/\ ret.tag = "f64"
          /\ Eq(ret.f, median(cauchy.self))
          /\ Eq(ret.f, given.x_0))
    /\ op = "median" => Eq(ret.f, given.x_0)

\* C9, reached: distribution(median()) returned 0.5 on Cauchy(2.0, 8.0)
C9_Witness ==
  /\ op = "distribution" /\ from.op = "median" /\ ret = RetF64(Half)
  /\ cauchy.self = [x_0 |-> Fin(0, 512), gamma |-> Fin(0, 2048)]

\* the draws of the last sample are finite
FiniteDraws == \A i \in 1 .. Len(draws) : IsFinite(draws[i].value)

\* C10 as stated: the divisor is at least EPSILON, and for finite a and b the
\* sample is a finite value (here: on a valid Cauchy).
C10_Original_SampleFinite ==
  (op = "sample" /\ FiniteDraws /\ Valid(cauchy.self)) =>
    /\ Le(EPSILON, divisor)
    /\ IsFinite(ret.f)

\* gamma * a / (|b| + EPSILON) + x_0 cannot pass f64::MAX: |x_0| <= f64::MAX / 2
\* and gamma * |a| <= EPSILON * (f64::MAX / 2)
NoOverflow(c, a) ==
  /\ c.x_0.m <= MaxFin \div 2
  /\ IsFinite(Mul(c.gamma, a))
  /\ Mul(c.gamma, a).m <= (EPSILON.m * (MaxFin \div 2)) \div Unit

\* C10, amended: for finite a and b the divisor |b| + EPSILON is finite and at
\* least EPSILON, so there is no division by zero; on a Cauchy with finite
\* parameters the sample is never NaN, and it is finite whenever
\* gamma * a / (|b| + EPSILON) + x_0 cannot pass f64::MAX (otherwise it may be an
\* infinity).
C10_DivisorPositiveSampleFiniteUnlessOverflow ==
  (op = "sample" /\ FiniteDraws) =>
    /\ IsFinite(divisor) /\ Le(EPSILON, divisor)
    /\ Valid(cauchy.self) => ~IsNaN(ret.f)
    /\ (Valid(cauchy.self) /\ NoOverflow(cauchy.self, draws[1].value)) => IsFinite(ret.f)

\* C10, reached: a sample on Cauchy(2.0, 8.0) that drew b = 0.0 and is finite
C10_Witness ==
  /\ op = "sample" /\ Len(draws) = 2 /\ IsZero(draws[2].value)
  /\ cauchy.self = [x_0 |-> Fin(0, 512), gamma |-> Fin(0, 2048)]
  /\ divisor = EPSILON /\ IsFinite(ret.f)

====
